---- MODULE Spec2Model ----
(***************************************************************************)
(* A model of gogit (src/gogit.go): a GitRepo handle binds a remote        *)
(* repository to a local folder and shells out to git.  The model keeps    *)
(* the process-wide working directory, a small file system, the handle of  *)
(* each caller and the position of each caller inside an operation.        *)
(*                                                                         *)
(* Strings are sequences of one-character strings, so that the string      *)
(* functions of the code (Split, TrimSpace, Contains, filepath.Split,      *)
(* filepath.Abs) are computed as the code computes them.  A file-system    *)
(* path is the sequence of the components of a clean absolute path.        *)
(***************************************************************************)
EXTENDS Naturals, Sequences, FiniteSets

VARIABLES
    dirs,      \* the directories on disk (clean absolute paths)
    files,     \* the regular files on disk: path -> content
    cwd,       \* the process's current working directory (process-global)
    gr,        \* gr[t]: the *GitRepo the caller t holds
    pc,        \* pc[t]: the statement the caller t is at
    loc,       \* loc[t]: the locals of t's call in progress or just returned,
               \*         with what the call did
    mutex,     \* the caller holding the external lock (0: free)
    serialized \* whether the callers serialize their calls with the lock

vars == <<dirs, files, cwd, gr, pc, loc, mutex, serialized>>

(***************************************************************************)
(* Strings                                                                 *)
(***************************************************************************)
sGit      == <<".", "g", "i", "t">>
sSlash    == <<"/">>
sFatal    == <<"f", "a", "t", "a", "l">>
sError    == <<"e", "r", "r", "o", "r">>
sClone    == <<"c", "l", "o", "n", "e">>
sPull     == <<"p", "u", "l", "l">>
sCouldNot == <<"C", "o", "u", "l", "d", " ", "n", "o", "t", " ">>
sRepo     == <<" ", "r", "e", "p", "o">>
\* unicode.IsSpace, on the characters the model uses
Space     == {" ", "\n", "\t"}

\* strings.Index: the first position (from 0) of sub in s, Len(s)+1 when absent
Index(s, sub) ==
    LET hits == {i \in 0..(Len(s) - Len(sub)) : SubSeq(s, i + 1, i + Len(sub)) = sub}
    IN  IF Len(sub) > Len(s) \/ hits = {} THEN Len(s) + 1
        ELSE CHOOSE i \in hits : \A j \in hits : i <= j

\* bytes.Contains / strings.Contains
Contains(s, sub) == Index(s, sub) <= Len(s)

\* strings.Split(s, sep), sep not empty: the pieces between the occurrences of sep
RECURSIVE Split(_, _)
Split(s, sep) ==
    LET i == Index(s, sep)
    IN  IF i > Len(s) THEN <<s>>
        ELSE <<SubSeq(s, 1, i)>> \o Split(SubSeq(s, i + Len(sep) + 1, Len(s)), sep)

RECURSIVE TrimLeft(_)
TrimLeft(s) == IF s # <<>> /\ Head(s) \in Space THEN TrimLeft(Tail(s)) ELSE s

RECURSIVE TrimRight(_)
TrimRight(s) ==
    IF s # <<>> /\ s[Len(s)] \in Space THEN TrimRight(SubSeq(s, 1, Len(s) - 1)) ELSE s

\* strings.TrimSpace
TrimSpace(s) == TrimRight(TrimLeft(s))

\* ParseRepoFolder: the part before the first ".git", its last "/" segment, trimmed
ParseRepoFolder(repo) ==
    LET firstPart      == Split(repo, sGit)[1]
        firstPartSplit == Split(firstPart, sSlash)
    IN  TrimSpace(firstPartSplit[Len(firstPartSplit)])

(***************************************************************************)
(* Paths and the file system                                               *)
(***************************************************************************)
sDotGit == sGit        \* the entry name ".git"
sDot    == <<".">>
sDotDot == <<".", ".">>

\* filepath.IsAbs
IsAbs(s) == s # <<>> /\ Head(s) = "/"

\* filepath.Clean on the components: "" and "." dropped, ".." takes one back
RECURSIVE Walk(_, _)
Walk(base, comps) ==
    IF comps = <<>> THEN base
    ELSE LET c == Head(comps)
         IN  IF c = <<>> \/ c = sDot THEN Walk(base, Tail(comps))
             ELSE IF c = sDotDot
                  THEN Walk(IF base = <<>> THEN base ELSE SubSeq(base, 1, Len(base) - 1),
                            Tail(comps))
                  ELSE Walk(Append(base, c), Tail(comps))

\* the clean absolute path the kernel resolves the string s to, from directory wd
Resolve(wd, s) == Walk(IF IsAbs(s) THEN <<>> ELSE wd, Split(s, sSlash))

\* the string of a clean absolute path: "/" for the root, else "/a/b"
RECURSIVE PathString(_)
PathString(p) ==
    IF p = <<>> THEN sSlash
    ELSE IF Len(p) = 1 THEN sSlash \o p[1]
         ELSE PathString(SubSeq(p, 1, Len(p) - 1)) \o sSlash \o p[Len(p)]

\* the path of an absolute path string
Comps(s) == Resolve(<<>>, s)

\* filepath.Split: the directory part (with its final "/") and the file part
LastSlash(fp) ==
    LET at == {i \in 1..Len(fp) : fp[i] = "/"}
    IN  IF at = {} THEN 0 ELSE CHOOSE i \in at : \A j \in at : j <= i
FilepathSplit(fp) ==
    [dir |-> SubSeq(fp, 1, LastSlash(fp)), file |-> SubSeq(fp, LastSlash(fp) + 1, Len(fp))]

\* path.Join(folder, ".git")
JoinGit(folder) == PathString(Append(Comps(folder), sDotGit))

Present(p, ds, fs) == p \in ds \/ p \in DOMAIN fs

\* errors: nil, an errors.New(msg), a system-call error, a subprocess error
NilErr        == [kind |-> "nil", msg |-> <<>>]
ErrorsNew(m)  == [kind |-> "errorString", msg |-> m]
SysErr(e)     == [kind |-> e, msg |-> <<>>]
ExitErr       == [kind |-> "ExitError", msg |-> <<>>]
ExecErr       == [kind |-> "ExecNotFound", msg |-> <<>>]

\* the kernel's walk of a path string: every directory stepped through must be
\* a directory ("." and ".." too: nothing is cleaned away before the walk)
IsName(c) == c # <<>>
Step(cur, c) ==
    IF c = sDot THEN cur
    ELSE IF c = sDotDot
         THEN (IF cur = <<>> THEN cur ELSE SubSeq(cur, 1, Len(cur) - 1))
         ELSE Append(cur, c)
RECURSIVE WalkDirs(_, _, _, _)
WalkDirs(cur, names, ds, fs) ==
    IF names = <<>> THEN [err |-> "nil", path |-> cur]
    ELSE IF cur \notin ds
         THEN [err |-> IF cur \in DOMAIN fs THEN "ENOTDIR" ELSE "ENOENT", path |-> cur]
         ELSE WalkDirs(Step(cur, Head(names)), Tail(names), ds, fs)

\* where the string s leads from wd: the error of the way, the path reached
\* (which may not exist), and whether s ends in "/"
Lookup(s, wd, ds, fs) ==
    IF s = <<>> THEN [err |-> "ENOENT", path |-> wd, slash |-> FALSE]
    ELSE LET w == WalkDirs(IF IsAbs(s) THEN <<>> ELSE wd,
                           SelectSeq(Split(s, sSlash), IsName), ds, fs)
         IN  [err |-> w.err, path |-> w.path, slash |-> s[Len(s)] = "/"]

\* os.Stat(s): the error
Stat(s, wd, ds, fs) ==
    LET l == Lookup(s, wd, ds, fs)
    IN  IF l.err # "nil" THEN l.err
        ELSE IF l.path \in ds THEN "nil"
             ELSE IF l.path \in DOMAIN fs THEN (IF l.slash THEN "ENOTDIR" ELSE "nil")
                  ELSE "ENOENT"
\* os.Stat(s) succeeds and reports a directory
IsDir(s, wd, ds, fs) ==
    LET l == Lookup(s, wd, ds, fs) IN l.err = "nil" /\ l.path \in ds

\* exists: true unless Stat reports that the path does not exist
exists(s, wd, ds, fs) ==
    LET err == Stat(s, wd, ds, fs)
    IN  IF err = "nil" THEN TRUE
        ELSE IF err = "ENOENT" THEN FALSE
             ELSE TRUE

\* os.Getwd: fails when the working directory is gone
GetwdOk(wd, ds) == wd \in ds

\* os.Chdir(s): the error, and the directory it leads to
ChdirErr(s, wd, ds, fs) ==
    LET l == Lookup(s, wd, ds, fs)
    IN  IF l.err # "nil" THEN l.err
        ELSE IF l.path \in ds THEN "nil"
             ELSE IF l.path \in DOMAIN fs THEN "ENOTDIR"
                  ELSE "ENOENT"
ChdirDir(s, wd, ds, fs) == Lookup(s, wd, ds, fs).path

\* the directories the process may not create entries in
ReadOnly == {<<<<"r", "o">>>>}

\* os.Mkdir(s): the error
MkdirErr(s, wd, ds, fs) ==
    LET l == Lookup(s, wd, ds, fs)
    IN  IF l.err # "nil" THEN l.err
        ELSE IF Present(l.path, ds, fs) THEN "EEXIST"
             ELSE IF SubSeq(l.path, 1, Len(l.path) - 1) \in ReadOnly THEN "EACCES"
                  ELSE "nil"

\* os.MkdirAll's scans of the string: back over the final "/"s, back over an element
RECURSIVE SkipSlashes(_, _)
SkipSlashes(s, i) == IF i > 0 /\ s[i] = "/" THEN SkipSlashes(s, i - 1) ELSE i
RECURSIVE SkipElement(_, _)
SkipElement(s, j) == IF j > 0 /\ s[j] # "/" THEN SkipElement(s, j - 1) ELSE j

\* os.MkdirAll(s): Stat; else MkdirAll of the parent string, then Mkdir, whose
\* error stands unless the path is a directory after all
RECURSIVE MkdirAll(_, _, _, _)
MkdirAll(s, wd, ds, fs) ==
    IF Stat(s, wd, ds, fs) = "nil"
    THEN [err |-> IF IsDir(s, wd, ds, fs) THEN "nil" ELSE "ENOTDIR", dirs |-> ds]
    ELSE LET j   == SkipElement(s, SkipSlashes(s, Len(s)))
             par == IF j > 1 THEN MkdirAll(SubSeq(s, 1, j - 1), wd, ds, fs)
                    ELSE [err |-> "nil", dirs |-> ds]
         IN  IF par.err # "nil" THEN par
             ELSE LET e == MkdirErr(s, wd, par.dirs, fs)
                  IN  IF e = "nil"
                      THEN [err |-> "nil",
                            dirs |-> par.dirs \cup {Lookup(s, wd, par.dirs, fs).path}]
                      ELSE IF IsDir(s, wd, par.dirs, fs)
                           THEN [err |-> "nil", dirs |-> par.dirs]
                           ELSE [err |-> e, dirs |-> par.dirs]
MkdirAllErr(s, wd, ds, fs)  == MkdirAll(s, wd, ds, fs).err
MkdirAllDirs(s, wd, ds, fs) == MkdirAll(s, wd, ds, fs).dirs

\* ioutil.WriteFile(s, data): the error of the open, and the files afterwards
WriteFileErr(s, wd, ds, fs) ==
    LET l == Lookup(s, wd, ds, fs)
    IN  IF l.err # "nil" THEN l.err
        ELSE IF l.slash \/ l.path \in ds THEN "EISDIR"
             ELSE IF l.path \in DOMAIN fs THEN "nil"
                  ELSE IF SubSeq(l.path, 1, Len(l.path) - 1) \in ReadOnly THEN "EACCES"
                       ELSE "nil"
WriteFileFiles(s, data, wd, ds, fs) ==
    LET p == Lookup(s, wd, ds, fs).path
    IN  IF WriteFileErr(s, wd, ds, fs) = "nil"
        THEN [q \in DOMAIN fs \cup {p} |-> IF q = p THEN data ELSE fs[q]]
        ELSE fs

\* filepath.Abs(s) when Getwd succeeds: the clean absolute path string
FilepathAbs(s, wd) == PathString(Resolve(wd, s))

(***************************************************************************)
(* The git subprocess: what exec.Cmd.CombinedOutput can return             *)
(***************************************************************************)
oEmpty == <<>>
oPlain == <<"u">>
oFatal == <<"a", " ">> \o sFatal
oError == sError \o <<":", "b">>
\* the texts git prints, and the white space around them
Outputs == {oPlain, oFatal, oError}
PadsL   == {<<>>, <<" ">>}
PadsR   == {<<>>, <<"\n">>}
Padded(outs) == {l \o o \o r : l \in PadsL, o \in outs, r \in PadsR}

\* nothing is inside the directory wd
IsEmptyDir(wd, ds, fs) ==
    /\ wd \in ds
    /\ ~\E q \in ds \cup DOMAIN fs : Len(q) = Len(wd) + 1 /\ SubSeq(q, 1, Len(wd)) = wd

\* the invocation errors a git command started in wd can end with: git not found,
\* a non-zero exit, or nil.  Whether git finds a repository and its settings
\* depends on its environment and configuration files too, so nil is left open
\* everywhere but for a clone into a directory that is not empty
InvocationErrors(cmd, wd, ds, fs) ==
    {ExecErr, ExitErr}
    \cup (IF cmd = "clone" /\ ~IsEmptyDir(wd, ds, fs) THEN {} ELSE {NilErr})

\* the texts a run can print: nothing when git could not be started
OutputsOf(ierr, outs) == IF ierr = ExecErr THEN {oEmpty} ELSE outs

\* the directories after the command: a successful clone leaves .git in wd
DirsAfter(cmd, ierr, wd, ds) ==
    IF cmd = "clone" /\ ierr = NilErr THEN ds \cup {Append(wd, sDotGit)} ELSE ds

\* one run as the log of a call keeps it
Run(cmd, arg, wd, out, ierr) ==
    [cmd |-> cmd, arg |-> arg, at |-> wd, out |-> out, ierr |-> ierr]

(***************************************************************************)
(* Callers, handles and calls                                              *)
(***************************************************************************)
Threads == {1, 2}

NoHandle == [repo |-> <<>>, folder |-> <<>>, level |-> "none", made |-> FALSE]

\* the locals of a call, with what the model records of it: the working
\* directory at the call (entry), the runs (calls), the path written (wrote)
NoCall ==
    [op |-> "none", folder |-> <<>>, saved |-> <<>>, deferred |-> FALSE,
     err |-> NilErr, repo |-> <<>>, pullOrClone |-> <<>>, data |-> "", fp |-> <<>>,
     entry |-> <<>>, calls |-> <<>>, wrote |-> <<>>, changed |-> FALSE,
     gitAtEntry |-> FALSE, after |-> <<>>]

\* the external lock: a serialized caller enters only when it is free
MayEnter(t) == pc[t] \in {"idle", "done"} /\ (serialized => mutex = 0)
Enter(t)    == mutex' = IF serialized THEN t ELSE mutex
Leave(t)    == mutex' = IF serialized THEN 0 ELSE mutex

(***************************************************************************)
(* New and Debug                                                           *)
(***************************************************************************)
\* the folder New works on: the caller's, or the one derived from the URL
ChosenFolder(repo, optionalFolder) ==
    IF Len(optionalFolder) > 0 THEN optionalFolder[1] ELSE ParseRepoFolder(repo)

\* New(repo, optionalFolder...): the handle, the error, the directories
NewResult(repo, optionalFolder, wd, ds, fs) ==
    LET chosen == ChosenFolder(repo, optionalFolder)
        abs    == FilepathAbs(chosen, wd)
    IN  IF ~GetwdOk(wd, ds) /\ ~IsAbs(chosen)
        THEN [gr |-> [repo |-> repo, folder |-> <<>>, level |-> "none", made |-> TRUE],
              err |-> SysErr("ENOENT"), dirs |-> ds]
        ELSE IF ~exists(abs, wd, ds, fs) /\ MkdirAllErr(abs, wd, ds, fs) # "nil"
             THEN [gr |-> [repo |-> repo, folder |-> abs, level |-> "none", made |-> TRUE],
                   err |-> SysErr(MkdirAllErr(abs, wd, ds, fs)), dirs |-> ds]
             ELSE [gr |-> [repo |-> repo, folder |-> abs, level |-> "Warn", made |-> TRUE],
                   err |-> NilErr,
                   dirs |-> IF exists(abs, wd, ds, fs) THEN ds
                            ELSE MkdirAllDirs(abs, wd, ds, fs)]

\* Debug(on)
DebugLevel(on) == IF on THEN "Info" ELSE "Warn"

(***************************************************************************)
(* The decisions of the operations                                         *)
(***************************************************************************)
\* a variant that never pulls
PullOrCloneAlwaysClone(folder, wd, ds, fs) == sClone

\* Update: clone when exists(path.Join(folder, ".git")) is false, else pull
PullOrClone(folder, wd, ds, fs) ==
    IF ~exists(JoinGit(folder), wd, ds, fs) THEN sClone ELSE sPull

\* a variant that looks at the text alone and drops the subprocess's own error
UpdateErrTextOnly(out, ierr, pullOrClone) ==
    IF Contains(out, sFatal) THEN ErrorsNew(sCouldNot \o pullOrClone \o sRepo) ELSE NilErr

\* Update: the error it returns after the run
UpdateErr(out, ierr, pullOrClone) ==
    IF Contains(out, sFatal) THEN ErrorsNew(sCouldNot \o pullOrClone \o sRepo) ELSE ierr

\* a variant that looks at the text alone and drops the subprocess's own error
PushErrTextOnly(out, ierr) == IF Contains(out, sError) THEN ErrorsNew(out) ELSE NilErr

\* Push: the error it returns after the run
PushErr(out, ierr) == IF Contains(out, sError) THEN ErrorsNew(out) ELSE ierr

\* a variant that commits whatever git add printed
AfterAddAlwaysCommit(out) == "commit"

\* AddData: the error after git add, and where it goes on
AddErr(out, ierr) == IF Contains(out, sError) THEN ErrorsNew(out) ELSE ierr
AfterAdd(out)     == IF Contains(out, sError) THEN "return" ELSE "commit"

\* a variant that returns the commit run's own error
CommitErrKept(err, out, ierr) == IF Contains(out, sError) THEN ErrorsNew(out) ELSE ierr

\* AddData: the error after git commit, whose own error is dropped
CommitErr(err, out, ierr) == IF Contains(out, sError) THEN ErrorsNew(out) ELSE err

\* a variant that reads "fatal" in the output as a failure
RemoteResultTextTest(out, ierr) ==
    [repo |-> TrimSpace(out),
     err |-> IF Contains(out, sFatal) THEN ErrorsNew(out) ELSE ierr]

\* GetRemoteOriginURL: what it returns after the run
RemoteResult(out, ierr) == [repo |-> TrimSpace(out), err |-> ierr]

\* a variant without the deferred os.Chdir
DeferredChdirSkipped(deferred, saved, wd, ds, fs) == wd

\* the deferred os.Chdir(cwd): the working directory after it
DeferredChdir(deferred, saved, wd, ds, fs) ==
    IF deferred /\ ChdirErr(saved, wd, ds, fs) = "nil" THEN ChdirDir(saved, wd, ds, fs) ELSE wd

\* the statement after the os.Chdir of each operation
FirstStep(op) ==
    CASE op = "Update"  -> "stat"
      [] op = "Push"    -> "push"
      [] op = "AddData" -> "mkdir"
      [] OTHER          -> "config"

(***************************************************************************)
(* The inputs                                                              *)
(***************************************************************************)
uA == <<"h", "/", "a">> \o sGit
uB == <<"h", "/", " ", "a">>
Repos == {uA, uB}
\* optionalFolder...: none, a path that is a regular file, a path that cannot be made
pFile == <<".", "/", "f">>
pDeny == <<"/", "r", "o", "/", "x">>
OptionalFolders == {<<>>, <<pFile>>, <<pDeny>>}
Data  == {"x"}
fpSub == <<"d", "/", "f">>
fpTop == <<"d">>
FilePaths == {fpSub, fpTop}
RepoFolders == {<<"a">>, pFile}

InitDirs  == {<<>>, <<<<"w">>>>, <<<<"r", "o">>>>}
InitFiles == [q \in {<<<<"w">>, <<"f">>>>} |-> "y"]
InitCwd   == <<<<"w">>>>

(***************************************************************************)
(* The calls, statement by statement                                       *)
(***************************************************************************)
\* what the caller's next call remembers of the call before it: the folder a
\* clone-mode Update has just cloned into
Cloned(c) ==
    IF c.op = "Update" /\ Len(c.calls) = 1 /\ c.calls[1].cmd = "clone"
       /\ c.calls[1].ierr = NilErr
    THEN c.folder ELSE <<>>

\* cwd, err := os.Getwd(); if err != nil { return }
Call(t, op, folder, data, fp) ==
    /\ MayEnter(t)
    /\ Enter(t)
    /\ loc' = [loc EXCEPT ![t] =
           [NoCall EXCEPT !.op = op, !.folder = folder, !.data = data, !.fp = fp,
                          !.entry = cwd,
                          !.gitAtEntry = Present(Append(Lookup(folder, cwd, dirs, files).path,
                                                        sDotGit), dirs, files),
                          !.after = Cloned(loc[t]),
                          !.saved = IF GetwdOk(cwd, dirs) THEN PathString(cwd) ELSE <<>>,
                          !.err = IF GetwdOk(cwd, dirs) THEN NilErr ELSE SysErr("ENOENT")]]
    /\ pc' = [pc EXCEPT ![t] = IF GetwdOk(cwd, dirs) THEN "chdir" ELSE "return"]
    /\ UNCHANGED <<dirs, files, cwd, gr, serialized>>

Update(t) ==
    /\ gr[t].made
    /\ Call(t, "Update", gr[t].folder, "", <<>>)

Push(t) ==
    /\ gr[t].made
    /\ Call(t, "Push", gr[t].folder, "", <<>>)

AddData(t, data, fp) ==
    /\ gr[t].made
    /\ Call(t, "AddData", gr[t].folder, data, fp)

GetRemoteOriginURL(t, repoFolder) ==
    /\ repoFolder \in RepoFolders
    /\ Call(t, "GetRemoteOriginURL", repoFolder, "", <<>>)

\* defer os.Chdir(cwd); err = os.Chdir(folder); if err != nil { return }
Chdir(t) ==
    /\ pc[t] = "chdir"
    /\ LET e == ChdirErr(loc[t].folder, cwd, dirs, files)
       IN  IF e = "nil"
           THEN /\ cwd' = ChdirDir(loc[t].folder, cwd, dirs, files)
                /\ loc' = [loc EXCEPT ![t].deferred = TRUE, ![t].changed = TRUE]
                /\ pc' = [pc EXCEPT ![t] =
                       IF loc[t].op # "GetRemoteOriginURL" /\ gr[t].level = "none"
                       THEN "panic" ELSE FirstStep(loc[t].op)]
           ELSE /\ cwd' = cwd
                /\ loc' = [loc EXCEPT ![t].deferred = TRUE, ![t].err = SysErr(e)]
                /\ pc' = [pc EXCEPT ![t] = "return"]
    /\ UNCHANGED <<dirs, files, gr, mutex, serialized>>

\* Update: if !exists(path.Join(gr.folder, ".git")) { clone } else { pull }
UpdateStat(t) ==
    /\ pc[t] = "stat"
    /\ loc' = [loc EXCEPT ![t].pullOrClone = PullOrClone(gr[t].folder, cwd, dirs, files)]
    /\ pc' = [pc EXCEPT ![t] = "exec"]
    /\ UNCHANGED <<dirs, files, cwd, gr, mutex, serialized>>

\* Update: stdoutStderr, err = cmd.CombinedOutput(); the "fatal" test; return
UpdateExec(t, outs) ==
    /\ pc[t] = "exec"
    /\ LET cmd == IF loc[t].pullOrClone = sClone THEN "clone" ELSE "pull"
           arg == IF cmd = "clone" THEN gr[t].repo ELSE <<>>
       IN  \E ierr \in InvocationErrors(cmd, cwd, dirs, files) :
           \E out \in OutputsOf(ierr, outs) :
              /\ dirs' = DirsAfter(cmd, ierr, cwd, dirs)
              /\ loc' = [loc EXCEPT
                     ![t].err = UpdateErr(out, ierr, loc[t].pullOrClone),
                     ![t].calls = Append(@, Run(cmd, arg, cwd, out, ierr))]
    /\ pc' = [pc EXCEPT ![t] = "return"]
    /\ UNCHANGED <<files, cwd, gr, mutex, serialized>>

\* Push: git push origin master; the "error" test; return
PushExec(t, outs) ==
    /\ pc[t] = "push"
    /\ \E ierr \in InvocationErrors("push", cwd, dirs, files) :
       \E out \in OutputsOf(ierr, outs) :
          loc' = [loc EXCEPT ![t].err = PushErr(out, ierr),
                             ![t].calls = Append(@, Run("push", <<>>, cwd, out, ierr))]
    /\ pc' = [pc EXCEPT ![t] = "return"]
    /\ UNCHANGED <<dirs, files, cwd, gr, mutex, serialized>>

\* AddData: dir, file := filepath.Split(fp); if len(dir) > 0 { os.MkdirAll(dir) }
AddMkdir(t) ==
    /\ pc[t] = "mkdir"
    /\ LET dir == FilepathSplit(loc[t].fp).dir
           e   == IF Len(dir) > 0 THEN MkdirAllErr(dir, cwd, dirs, files) ELSE "nil"
       IN  /\ dirs' = IF Len(dir) > 0 THEN MkdirAllDirs(dir, cwd, dirs, files) ELSE dirs
           /\ loc' = [loc EXCEPT ![t].err = IF e = "nil" THEN NilErr ELSE SysErr(e)]
           /\ pc' = [pc EXCEPT ![t] = IF e = "nil" THEN "write" ELSE "return"]
    /\ UNCHANGED <<files, cwd, gr, mutex, serialized>>

\* AddData: err = ioutil.WriteFile(fp, data, 0755); if err != nil { return err }
AddWrite(t) ==
    /\ pc[t] = "write"
    /\ LET e == WriteFileErr(loc[t].fp, cwd, dirs, files)
       IN  /\ files' = WriteFileFiles(loc[t].fp, loc[t].data, cwd, dirs, files)
           /\ loc' = [loc EXCEPT
                  ![t].err = IF e = "nil" THEN NilErr ELSE SysErr(e),
                  ![t].wrote = IF e = "nil" THEN PathString(Lookup(loc[t].fp, cwd, dirs, files).path)
                               ELSE <<>>]
           /\ pc' = [pc EXCEPT ![t] = IF e = "nil" THEN "add" ELSE "return"]
    /\ UNCHANGED <<dirs, cwd, gr, mutex, serialized>>

\* AddData: git add fp; the "error" test
AddGitAdd(t, outs) ==
    /\ pc[t] = "add"
    /\ \E ierr \in InvocationErrors("add", cwd, dirs, files) :
       \E out \in OutputsOf(ierr, outs) :
          /\ loc' = [loc EXCEPT ![t].err = AddErr(out, ierr),
                                ![t].calls = Append(@, Run("add", loc[t].fp, cwd, out, ierr))]
          /\ pc' = [pc EXCEPT ![t] = AfterAdd(out)]
    /\ UNCHANGED <<dirs, files, cwd, gr, mutex, serialized>>

\* AddData: git commit -m "Add "+fileName fp; the "error" test; return
AddGitCommit(t, outs) ==
    /\ pc[t] = "commit"
    /\ \E ierr \in InvocationErrors("commit", cwd, dirs, files) :
       \E out \in OutputsOf(ierr, outs) :
          loc' = [loc EXCEPT
              ![t].err = CommitErr(loc[t].err, out, ierr),
              ![t].calls = Append(@, Run("commit", FilepathSplit(loc[t].fp).file,
                                         cwd, out, ierr))]
    /\ pc' = [pc EXCEPT ![t] = "return"]
    /\ UNCHANGED <<dirs, files, cwd, gr, mutex, serialized>>

\* GetRemoteOriginURL: git config --get remote.origin.url; TrimSpace; return
RemoteExec(t, outs) ==
    /\ pc[t] = "config"
    /\ \E ierr \in InvocationErrors("config", cwd, dirs, files) :
       \E out \in OutputsOf(ierr, outs) :
          loc' = [loc EXCEPT ![t].repo = RemoteResult(out, ierr).repo,
                             ![t].err = RemoteResult(out, ierr).err,
                             ![t].calls = Append(@, Run("config", <<>>, cwd, out, ierr))]
    /\ pc' = [pc EXCEPT ![t] = "return"]
    /\ UNCHANGED <<dirs, files, cwd, gr, mutex, serialized>>

\* the return: the deferred os.Chdir(cwd) runs, the caller has the result
Return(t) ==
    /\ pc[t] = "return"
    /\ cwd' = DeferredChdir(loc[t].deferred, loc[t].saved, cwd, dirs, files)
    /\ pc' = [pc EXCEPT ![t] = "done"]
    /\ Leave(t)
    /\ UNCHANGED <<dirs, files, gr, loc, serialized>>

\* New(repo, optionalFolder...)
New(t, repo, optionalFolder) ==
    /\ MayEnter(t)
    /\ LET r == NewResult(repo, optionalFolder, cwd, dirs, files)
       IN  /\ gr' = [gr EXCEPT ![t] = r.gr]
           /\ dirs' = r.dirs
           /\ loc' = [loc EXCEPT ![t] =
                  [NoCall EXCEPT !.op = "New", !.err = r.err, !.entry = cwd,
                                 !.folder = ChosenFolder(repo, optionalFolder)]]
    /\ pc' = [pc EXCEPT ![t] = "done"]
    /\ UNCHANGED <<files, cwd, mutex, serialized>>

\* gr.Debug(on)
Debug(t, on) ==
    /\ MayEnter(t)
    /\ gr[t].level # "none"
    /\ gr' = [gr EXCEPT ![t].level = DebugLevel(on)]
    /\ loc' = [loc EXCEPT ![t] = [NoCall EXCEPT !.op = "Debug", !.entry = cwd]]
    /\ pc' = [pc EXCEPT ![t] = "done"]
    /\ UNCHANGED <<dirs, files, cwd, mutex, serialized>>

(***************************************************************************)
(* Sequential use: one caller                                              *)
(***************************************************************************)
Init ==
    /\ dirs = InitDirs
    /\ files = InitFiles
    /\ cwd = InitCwd
    /\ gr = [t \in Threads |-> NoHandle]
    /\ pc = [t \in Threads |-> "idle"]
    /\ loc = [t \in Threads |-> NoCall]
    /\ mutex = 0
    /\ serialized = FALSE

Next ==
    \/ \E repo \in Repos, opt \in OptionalFolders : New(1, repo, opt)
    \/ \E on \in BOOLEAN : Debug(1, on)
    \/ Update(1)
    \/ Push(1)
    \/ \E data \in Data, fp \in FilePaths : AddData(1, data, fp)
    \/ \E repoFolder \in RepoFolders : GetRemoteOriginURL(1, repoFolder)
    \/ Chdir(1)
    \/ UpdateStat(1)
    \/ UpdateExec(1, Outputs)
    \/ PushExec(1, Outputs)
    \/ AddMkdir(1)
    \/ AddWrite(1)
    \/ AddGitAdd(1, Outputs)
    \/ AddGitCommit(1, Outputs)
    \/ RemoteExec(1, Padded(Outputs))
    \/ Return(1)

Spec == Init /\ [][Next]_vars

(***************************************************************************)
(* ParseRepoFolder on its own: the URLs made of at most MaxTok pieces      *)
(***************************************************************************)
MaxTok == 4
Tokens == {<<"h">>, <<"p">>, sSlash, sGit, <<" ">>}

RECURSIVE UrlsOf(_)
UrlsOf(n) == IF n = 0 THEN {<<>>}
             ELSE UrlsOf(n - 1) \cup {u \o k : u \in UrlsOf(n - 1), k \in Tokens}

ParseCall(t, repo) ==
    /\ pc[t] = "idle"
    /\ loc' = [loc EXCEPT ![t] =
           [NoCall EXCEPT !.op = "ParseRepoFolder", !.repo = repo,
                          !.folder = ParseRepoFolder(repo)]]
    /\ pc' = [pc EXCEPT ![t] = "done"]
    /\ UNCHANGED <<dirs, files, cwd, gr, mutex, serialized>>

NextParse == \E repo \in UrlsOf(MaxTok) : ParseCall(1, repo)

SpecParse == Init /\ [][NextParse]_vars

(***************************************************************************)
(* Concurrent use: two callers, each with its own handle and folder, with  *)
(* or without a lock around every call                                     *)
(***************************************************************************)
fA == <<"/", "w", "/", "a">>
fB == <<"/", "w", "/", "b">>
ConcOutputs == {oPlain}

InitConc ==
    /\ dirs = InitDirs \cup {Comps(fA), Comps(fB), Append(Comps(fA), sDotGit)}
    /\ files = InitFiles
    /\ cwd = InitCwd
    /\ gr = [t \in Threads |->
                IF t = 1 THEN [repo |-> uA, folder |-> fA, level |-> "Warn", made |-> TRUE]
                ELSE [repo |-> uB, folder |-> fB, level |-> "Warn", made |-> TRUE]]
    /\ pc = [t \in Threads |-> "idle"]
    /\ loc = [t \in Threads |-> NoCall]
    /\ mutex = 0
    /\ serialized \in BOOLEAN

NextConc ==
    \E t \in Threads :
        \/ Update(t)
        \/ Push(t)
        \/ Chdir(t)
        \/ UpdateStat(t)
        \/ UpdateExec(t, ConcOutputs)
        \/ PushExec(t, ConcOutputs)
        \/ Return(t)

SpecConc == InitConc /\ [][NextConc]_vars

(***************************************************************************)
(* The properties                                                          *)
(***************************************************************************)
\* the call of caller 1 has returned from op
Returned(op) == pc[1] = "done" /\ loc[1].op = op
\* the outputs with the marker in them, by construction
FatalOutputs == {l \o oFatal \o r : l \in PadsL, r \in PadsR}
ErrorOutputs == {l \o oError \o r : l \in PadsL, r \in PadsR}
\* the messages of Update's errors, written out
mCouldNotClone ==
    <<"C", "o", "u", "l", "d", " ", "n", "o", "t", " ", "c", "l", "o", "n", "e",
      " ", "r", "e", "p", "o">>
mCouldNotPull ==
    <<"C", "o", "u", "l", "d", " ", "n", "o", "t", " ", "p", "u", "l", "l",
      " ", "r", "e", "p", "o">>
TaggedErr(cmd) ==
    [kind |-> "errorString", msg |-> IF cmd = "clone" THEN mCouldNotClone ELSE mCouldNotPull]

\* C1 as stated: an Update that ran git fails exactly when the output contains
\* "fatal" (with an error naming clone or pull) and returns no error otherwise,
\* whatever the subprocess's own error
C1_UpdateFailsExactlyOnFatal ==
    (Returned("Update") /\ Len(loc[1].calls) = 1) =>
        LET run == loc[1].calls[1]
        IN  IF run.out \in FatalOutputs THEN loc[1].err = TaggedErr(run.cmd)
            ELSE loc[1].err = NilErr

\* C1 amended: an Update that ran git returns the clone/pull error when the output
\* contains "fatal", and otherwise returns the subprocess's own error unchanged
\* (nil only when git started and exited cleanly)
C1_UpdateFatalElseInvocationError ==
    (Returned("Update") /\ Len(loc[1].calls) = 1) =>
        LET run == loc[1].calls[1]
        IN  IF run.out \in FatalOutputs THEN loc[1].err = TaggedErr(run.cmd)
            ELSE loc[1].err = run.ierr

C1_Witness ==
    /\ Returned("Update")
    /\ Len(loc[1].calls) = 1
    /\ loc[1].calls[1].out \notin FatalOutputs
    /\ loc[1].calls[1].ierr = ExitErr
    /\ loc[1].err = ExitErr

\* C2: when Update, Push, AddData or GetRemoteOriginURL has returned, whatever its
\* outcome, the working directory is the one the process had at the call
C2_WorkingDirectoryRestored ==
    (pc[1] = "done" /\ loc[1].op \in {"Update", "Push", "AddData", "GetRemoteOriginURL"})
        => cwd = loc[1].entry

C2_Witness ==
    /\ Returned("AddData")
    /\ loc[1].changed
    /\ loc[1].err.kind = "EISDIR"
    /\ cwd = loc[1].entry

\* C3: AddData writes, then runs git add, then git commit; commit runs exactly
\* when the write succeeded and add's output has no "error"; an "error" in add's
\* output makes AddData fail at once; a written file stays on disk
C3_WriteAddCommit ==
    (loc[1].op = "AddData") =>
        LET calls == loc[1].calls
        IN  /\ Len(calls) <= 2
            /\ Len(calls) >= 1 => (loc[1].wrote # <<>> /\ calls[1].cmd = "add")
            /\ Len(calls) = 2 => calls[2].cmd = "commit"
            /\ pc[1] = "done" =>
                 /\ Len(calls) = 2 <=>
                       (loc[1].wrote # <<>> /\ calls[1].out \notin ErrorOutputs)
                 /\ (Len(calls) >= 1 /\ calls[1].out \in ErrorOutputs) =>
                       (Len(calls) = 1 /\ loc[1].err # NilErr)
                 /\ loc[1].wrote # <<>> => Comps(loc[1].wrote) \in DOMAIN files

C3_Witness ==
    /\ Returned("AddData")
    /\ Len(loc[1].calls) = 1
    /\ loc[1].calls[1].out \in ErrorOutputs
    /\ Comps(loc[1].wrote) \in DOMAIN files

\* C4 as stated: Push fails with the whole output as its message when the output
\* contains "error", and returns no error otherwise, whatever git's exit status
C4_PushFailsExactlyOnError ==
    (Returned("Push") /\ Len(loc[1].calls) = 1) =>
        LET run == loc[1].calls[1]
        IN  IF run.out \in ErrorOutputs
            THEN loc[1].err = [kind |-> "errorString", msg |-> run.out]
            ELSE loc[1].err = NilErr

\* C4 amended: Push fails with the whole output as its message when the output
\* contains "error", and otherwise returns the subprocess's own error unchanged
C4_PushErrorElseInvocationError ==
    (Returned("Push") /\ Len(loc[1].calls) = 1) =>
        LET run == loc[1].calls[1]
        IN  IF run.out \in ErrorOutputs
            THEN loc[1].err = [kind |-> "errorString", msg |-> run.out]
            ELSE loc[1].err = run.ierr

C4_Witness ==
    /\ Returned("Push")
    /\ Len(loc[1].calls) = 1
    /\ loc[1].calls[1].out \in ErrorOutputs
    /\ loc[1].calls[1].ierr = NilErr
    /\ loc[1].err.msg = loc[1].calls[1].out

\* C5: an Update that changed into the folder runs git exactly once: clone of the
\* handle's URL when the folder held no .git at the call, pull when it did; and the
\* Update that follows a clone-mode Update which made the working copy runs pull
C5_OneCloneOrPull ==
    (loc[1].op = "Update") =>
        /\ Len(loc[1].calls) <= 1
        /\ (pc[1] = "done" /\ loc[1].changed) =>
              /\ Len(loc[1].calls) = 1
              /\ loc[1].calls[1].cmd = IF loc[1].gitAtEntry THEN "pull" ELSE "clone"
              /\ loc[1].calls[1].cmd = "clone" => loc[1].calls[1].arg = gr[1].repo
              /\ loc[1].after = loc[1].folder => loc[1].calls[1].cmd = "pull"

C5_Witness ==
    /\ Returned("Update")
    /\ loc[1].after = loc[1].folder
    /\ Len(loc[1].calls) = 1
    /\ loc[1].calls[1].cmd = "pull"

\* C6 as stated: when New returns no error, the handle's folder is an absolute
\* path and a directory is on disk there
C6_NewLeavesDirectory ==
    (Returned("New") /\ loc[1].err = NilErr) =>
        /\ IsAbs(gr[1].folder)
        /\ Comps(gr[1].folder) \in dirs

\* the part of s after its last "/"
LastSegment(s) ==
    LET at == {i \in 1..Len(s) : s[i] = "/"}
    IN  IF at = {} THEN s
        ELSE SubSeq(s, (CHOOSE i \in at : \A j \in at : j <= i) + 1, Len(s))
\* s without one final ".git"
WithoutSuffix(s) ==
    IF Len(s) >= 4 /\ SubSeq(s, Len(s) - 3, Len(s)) = <<".", "g", "i", "t">>
    THEN SubSeq(s, 1, Len(s) - 4) ELSE s
NonSpace(c) == c \notin {" ", "\n", "\t"}
\* the repository name of a URL that starts with a host and whose last segment is
\* a name (no white space, no ".git" inside), white space around it, and an
\* optional final ".git"
RepoName(url) == SelectSeq(WithoutSuffix(LastSegment(url)), NonSpace)
NamesRepo(url) ==
    LET core == WithoutSuffix(LastSegment(url))
        name == RepoName(url)
    IN  /\ url # <<>> /\ url[1] \notin {".", "/", " "}
        /\ name # <<>>
        /\ \E a \in 0..(Len(core) - Len(name)) : SubSeq(core, a + 1, a + Len(name)) = name
        /\ ~\E i \in 1..(Len(name) - 3) : SubSeq(name, i, i + 3) = <<".", "g", "i", "t">>

\* C7 as stated: for a URL whose last segment is a repository name with an
\* optional final ".git", whatever comes before, ParseRepoFolder returns the name
C7_ParseRepoFolderGivesName ==
    (Returned("ParseRepoFolder") /\ NamesRepo(loc[1].repo))
        => loc[1].folder = RepoName(loc[1].repo)

\* C8: GetRemoteOriginURL that changed into the folder returns git's output with
\* the white space around it removed and git's own error unchanged, whatever the
\* text; when it cannot change into the folder it returns an error, "" and runs
\* nothing
C8_RemoteOriginRaw ==
    Returned("GetRemoteOriginURL") =>
        IF loc[1].changed
        THEN /\ Len(loc[1].calls) = 1
             /\ loc[1].calls[1].cmd = "config"
             /\ loc[1].err = loc[1].calls[1].ierr
             /\ \E l \in PadsL, o \in Outputs \cup {oEmpty}, r \in PadsR :
                   loc[1].calls[1].out = l \o o \o r /\ loc[1].repo = o
        ELSE /\ loc[1].err # NilErr
             /\ loc[1].repo = <<>>
             /\ loc[1].calls = <<>>

C8_Witness ==
    /\ Returned("GetRemoteOriginURL")
    /\ loc[1].changed
    /\ loc[1].calls[1].out = <<" ">> \o oFatal \o <<"\n">>
    /\ loc[1].calls[1].ierr = NilErr
    /\ loc[1].err = NilErr
    /\ loc[1].repo = oFatal

\* the folder caller t's call works in
OwnFolder(t) == Comps(loc[t].folder)

\* C9: with the calls serialized by a lock, every git run of a call starts in the
\* call's own folder, and whenever no call is in progress the working directory is
\* the one the process started with (without the lock both fail: the witness)
C9_SerializedCallsKeepCwd ==
    serialized =>
        /\ \A t \in Threads : \A i \in 1..Len(loc[t].calls) :
              loc[t].calls[i].at = OwnFolder(t)
        /\ (\A t \in Threads : pc[t] \in {"idle", "done"}) => cwd = InitCwd

C9_Witness ==
    /\ ~serialized
    /\ \A t \in Threads : pc[t] = "done"
    /\ cwd # InitCwd
    /\ \E t \in Threads : Len(loc[t].calls) = 1 /\ loc[t].calls[1].at = OwnFolder(3 - t)

\* C10: when neither add's nor commit's output contains "error", AddData returns
\* the error of the add run (nil when add exited cleanly), however commit ended
C10_CommitErrorDropped ==
    (Returned("AddData") /\ Len(loc[1].calls) = 2
       /\ loc[1].calls[1].out \notin ErrorOutputs
       /\ loc[1].calls[2].out \notin ErrorOutputs)
        => loc[1].err = loc[1].calls[1].ierr

C10_Witness ==
    /\ Returned("AddData")
    /\ Len(loc[1].calls) = 2
    /\ loc[1].calls[1].ierr = NilErr
    /\ loc[1].calls[2].ierr = ExitErr
    /\ loc[1].calls[2].out \notin ErrorOutputs
    /\ loc[1].err = NilErr

====
